---- MODULE Spec2Model ----
(***************************************************************************)
(* Survey analysis engine of the repository: the heuristic-inference       *)
(* design (src/src/survey_analyzer.py, class SurveyAnalyzer) and the       *)
(* schema-driven design (src/so_lib/core.py, src/so_lib/analysis.py),      *)
(* with their command lines (src/src/cli.py and its REPL,                  *)
(* src/so_lib/cli.py).                                                     *)
(*                                                                         *)
(* Text is a sequence of one-character strings, so that splitting on ';',  *)
(* trimming, lower-casing and substring search are computed, not assumed.  *)
(* A cell of the table is a record [k, s]: k = "nan" (missing), "str"      *)
(* (a text cell) or "num" (a numeric cell); s is the text of a "str" cell  *)
(* and what Python's str() prints for a "num" cell.                        *)
(* A percentage is the exact rational [n, d] (n/d); rounding to two        *)
(* decimals happens where the code rounds (display_distribution).          *)
(***************************************************************************)
EXTENDS Integers, Sequences, FiniteSets, TLC

\* ------------------------------------------------------------------------
\* Bounds of the model
\* ------------------------------------------------------------------------

\* Largest number of rows of a loaded table.
MaxRows == 3

\* Most rows of a table in a run of a command-line program
MaxCliRows == 2

\* ------------------------------------------------------------------------
\* Python str operations
\* ------------------------------------------------------------------------

\* One character, lower-cased (str.lower on the alphabet of the model).
LowerChar(c) ==
    CASE c = "A" -> "a"
      [] c = "B" -> "b"
      [] c = "C" -> "c"
      [] c = "G" -> "g"
      [] c = "Q" -> "q"
      [] c = "R" -> "r"
      [] c = "I" -> "i"
      [] OTHER -> c

\* str.lower()
lower(s) == [i \in 1..Len(s) |-> LowerChar(s[i])]

\* needle in hay (Python's substring test on str)
contains(needle, hay) ==
    \E i \in 0..(Len(hay) - Len(needle)) :
        SubSeq(hay, i + 1, i + Len(needle)) = needle

RECURSIVE SplitAcc(_, _, _, _)
SplitAcc(s, sep, i, cur) ==
    IF i > Len(s) THEN <<cur>>
    ELSE IF s[i] = sep THEN <<cur>> \o SplitAcc(s, sep, i + 1, <<>>)
    ELSE SplitAcc(s, sep, i + 1, Append(cur, s[i]))

\* str.split(sep): "A;" gives <<"A", "">>, "" gives <<"">>
split(s, sep) == SplitAcc(s, sep, 1, <<>>)

RECURSIVE lstrip(_)
lstrip(s) == IF s # <<>> /\ Head(s) = " " THEN lstrip(Tail(s)) ELSE s

RECURSIVE rstrip(_)
rstrip(s) ==
    IF s # <<>> /\ s[Len(s)] = " " THEN rstrip(SubSeq(s, 1, Len(s) - 1)) ELSE s

\* str.strip()
strip(s) == rstrip(lstrip(s))

\* re.search(pat, s) for the patterns of the model: every character of the
\* pattern stands for itself except ".", which matches any one character;
\* ignorecase is re.IGNORECASE.
re_search(pat, s, ignorecase) ==
    \E i \in 0..(Len(s) - Len(pat)) :
        \A j \in 1..Len(pat) :
            \/ pat[j] = "."
            \/ IF ignorecase THEN LowerChar(pat[j]) = LowerChar(s[i + j])
                             ELSE pat[j] = s[i + j]

\* The characters of the model in the order of their code points
CodePoints ==
    <<" ", ".", "1", "2", "3", "4", "5", "6", "7", "8", "9", ";",
      "A", "B", "C", "G", "I", "Q", "R",
      "a", "b", "c", "d", "e", "g", "i", "n", "o", "p", "q", "r", "s", "x", "z">>

\* ord(c)
ord(c) == CHOOSE i \in 1..Len(CodePoints) : CodePoints[i] = c

\* a < b on str: by the first character that differs, a proper prefix first
RECURSIVE str_lt(_, _)
str_lt(a, b) ==
    IF b = <<>> THEN FALSE
    ELSE IF a = <<>> THEN TRUE
    ELSE IF Head(a) # Head(b) THEN ord(Head(a)) < ord(Head(b))
    ELSE str_lt(Tail(a), Tail(b))

\* A sort of strings that puts the greater first
sorted_descending(strs) ==
    LET n == Len(strs)
        pos(i) == 1 + Cardinality({j \in 1..n : str_lt(strs[i], strs[j])})
                    + Cardinality({j \in 1..(i - 1) : strs[j] = strs[i]})
    IN  [p \in 1..n |-> strs[CHOOSE i \in 1..n : pos(i) = p]]

\* sorted(strs) on a list of str: ascending, stable
sorted_asc(strs) ==
    LET n == Len(strs)
        pos(i) == 1 + Cardinality({j \in 1..n : str_lt(strs[j], strs[i])})
                    + Cardinality({j \in 1..(i - 1) : strs[j] = strs[i]})
    IN  [p \in 1..n |-> strs[CHOOSE i \in 1..n : pos(i) = p]]

\* The characters of a column name
name_chars(col) ==
    CASE col = "ResponseId" -> <<"R", "e", "s", "p", "o", "n", "s", "e", "I", "d">>
      [] col = "Q1" -> <<"Q", "1">>
      [] col = "Q2" -> <<"Q", "2">>
      [] col = "Q9" -> <<"Q", "9">>
      [] OTHER -> <<>>

\* ------------------------------------------------------------------------
\* Cells, rows, tables (pandas)
\* ------------------------------------------------------------------------

NaN == [k |-> "nan", s |-> <<>>]
Str(s) == [k |-> "str", s |-> s]
Num(s) == [k |-> "num", s |-> s]

\* pandas' notna / isna on one cell
notna(cell) == cell.k # "nan"

\* Python's str(val) of a non-null cell value
str(cell) == cell.s

\* isinstance(val, str)
is_str(cell) == cell.k = "str"

\* The columns of the raw data table, in table order.
Columns == <<"ResponseId", "Q1", "Q2">>
ColumnSet == {Columns[i] : i \in 1..Len(Columns)}

\* SelectSeq with a predicate given as a set of indices, order kept.
RECURSIVE KeepIdx(_, _, _)
KeepIdx(seq, keep, i) ==
    IF i > Len(seq) THEN <<>>
    ELSE (IF i \in keep THEN <<seq[i]>> ELSE <<>>) \o KeepIdx(seq, keep, i + 1)

\* df[col]: the cells of one column, in row order
column(rows, col) == [i \in 1..Len(rows) |-> rows[i][col]]

\* Series.dropna(): the non-null cells, in row order
dropna(cells) == KeepIdx(cells, {i \in 1..Len(cells) : notna(cells[i])}, 1)

\* Series.notna().sum()
notna_sum(cells) == Cardinality({i \in 1..Len(cells) : notna(cells[i])})

\* Series.unique(): the distinct values in order of first appearance
unique(cells) ==
    KeepIdx(cells, {i \in 1..Len(cells) : \A j \in 1..(i - 1) : cells[j] # cells[i]}, 1)

\* Number of cells equal to v
count_of(cells, v) == Cardinality({i \in 1..Len(cells) : cells[i] = v})

\* ------------------------------------------------------------------------
\* Python dict (insertion ordered): a sequence of [k, v] with distinct keys
\* ------------------------------------------------------------------------

dict_has(d, key) == \E i \in 1..Len(d) : d[i].k = key

\* d.get(key, default)
dict_get(d, key, default) ==
    IF dict_has(d, key) THEN d[CHOOSE i \in 1..Len(d) : d[i].k = key].v ELSE default

\* d[key] = value: a present key keeps its place and takes the new value,
\* a new key is appended
dict_set(d, key, value) ==
    IF dict_has(d, key)
    THEN [i \in 1..Len(d) |-> IF d[i].k = key THEN [k |-> key, v |-> value] ELSE d[i]]
    ELSE Append(d, [k |-> key, v |-> value])

\* {k: v for k, v in pairs}
RECURSIVE dict_of(_, _)
dict_of(pairs, d) ==
    IF pairs = <<>> THEN d
    ELSE dict_of(Tail(pairs), dict_set(d, Head(pairs).k, Head(pairs).v))

\* counts[key] = counts.get(key, 0) + 1 for every key of keys, in order
RECURSIVE count_keys(_, _)
count_keys(keys, d) ==
    IF keys = <<>> THEN d
    ELSE count_keys(Tail(keys), dict_set(d, Head(keys), dict_get(d, Head(keys), 0) + 1))

RECURSIVE concat(_)
concat(seqs) == IF seqs = <<>> THEN <<>> ELSE Head(seqs) \o concat(Tail(seqs))

\* ------------------------------------------------------------------------
\* Percentages: exact rationals n/d, d > 0
\* ------------------------------------------------------------------------

\* (count / total) * 100
pct(count, total) == [n |-> count * 100, d |-> total]

\* A division done before the counts are looked at: by zero whenever the
\* denominator is 0
divides_eagerly(counts, total) == total = 0

\* Whether turning the counts into percentages divides by zero: some count is
\* divided (the comprehension is not empty) and the denominator is 0
divides_by_zero(counts, total) == Len(counts) > 0 /\ total = 0

r_lt(a, b) == a.n * b.d < b.n * a.d
r_eq(a, b) == a.n * b.d = b.n * a.d
r_le(a, b) == a.n * b.d <= b.n * a.d
r_add(a, b) == [n |-> a.n * b.d + b.n * a.d, d |-> a.d * b.d]

RECURSIVE r_sum(_)
r_sum(rs) == IF rs = <<>> THEN [n |-> 0, d |-> 1] ELSE r_add(Head(rs), r_sum(Tail(rs)))

\* round(x, 2) of a non-negative x, as a number of hundredths (ties to even)
round2(r) ==
    LET q   == (r.n * 100) \div r.d
        rem == (r.n * 100) % r.d
    IN  IF 2 * rem < r.d THEN q
        ELSE IF 2 * rem > r.d THEN q + 1
        ELSE IF q % 2 = 0 THEN q ELSE q + 1

\* A descending sort that is not stable: equal keys come out reversed
sorted_desc_reversing(items) ==
    LET n == Len(items)
        pos(i) == 1 + Cardinality({j \in 1..n : r_lt(items[i].v, items[j].v)})
                    + Cardinality({j \in (i + 1)..n : r_eq(items[j].v, items[i].v)})
    IN  [p \in 1..n |-> items[CHOOSE i \in 1..n : pos(i) = p]]

\* sorted(items, key=lambda x: x[1], reverse=True) on [k, v] items whose v is
\* a percentage: descending, and stable (equal keys keep their order)
sorted_desc(items) ==
    LET n == Len(items)
        pos(i) == 1 + Cardinality({j \in 1..n : r_lt(items[i].v, items[j].v)})
                    + Cardinality({j \in 1..(i - 1) : r_eq(items[j].v, items[i].v)})
    IN  [p \in 1..n |-> items[CHOOSE i \in 1..n : pos(i) = p]]

\* Series.value_counts(): [k |-> value, v |-> count] of the non-null values,
\* by descending count; values of equal count stay in order of first
\* appearance
value_counts(cells) ==
    LET vals  == unique(dropna(cells))
        n     == Len(vals)
        cnt(i) == count_of(cells, vals[i])
        pos(i) == 1 + Cardinality({j \in 1..n : cnt(j) > cnt(i)})
                    + Cardinality({j \in 1..(i - 1) : cnt(j) = cnt(i)})
    IN  [p \in 1..n |->
            LET i == CHOOSE i \in 1..n : pos(i) = p
            IN  [k |-> vals[i], v |-> cnt(i)]]

\* Python slices seq[:k] and seq[k:] (k may be negative)
slice_to(seq, k) ==
    IF k >= 0 THEN SubSeq(seq, 1, IF k < Len(seq) THEN k ELSE Len(seq))
    ELSE SubSeq(seq, 1, IF Len(seq) + k > 0 THEN Len(seq) + k ELSE 0)

slice_from(seq, k) ==
    IF k >= 0 THEN SubSeq(seq, k + 1, Len(seq))
    ELSE SubSeq(seq, (IF Len(seq) + k > 0 THEN Len(seq) + k ELSE 0) + 1, Len(seq))

\* Optional[...]: None is <<>>, a value x is <<x>>
None == <<>>
Some(x) == <<x>>

\* What a call gives back: a returned value, or a raised exception.
Ok(v) == [raised |-> "", value |-> v]
Raise(e) == [raised |-> e, value |-> <<>>]

\* ------------------------------------------------------------------------
\* src/src/survey_analyzer.py: class SurveyAnalyzer
\* An analyzer object is [df, questions, question_types]; questions is the
\* dict self.questions in insertion order, question_types a function on the
\* analysed columns.
\* ------------------------------------------------------------------------

Semicolon == <<";">>

\* An inference that looks at every value: MC when any non-null value holds ';'
infer_type_any(cells) ==
    IF Len(dropna(cells)) = 0 THEN "empty"
    ELSE IF \E i \in 1..Len(cells) : notna(cells[i]) /\ contains(Semicolon, str(cells[i]))
         THEN "MC"
    ELSE "SC"

\* The type _analyze_structure gives one column
infer_type(cells) ==
    IF Len(unique(dropna(cells))) = 0 THEN "empty"
    ELSE IF contains(Semicolon,
                     str(IF Len(dropna(cells)) > 0 THEN dropna(cells)[1] ELSE Str(<<>>)))
         THEN "MC"
    ELSE "SC"

\* An analysis that does not skip the identifier column
analyze_all_columns(rows, cols) ==
    [i \in 1..Len(cols) |->
        [k |-> cols[i],
         v |-> [type            |-> infer_type(column(rows, cols[i])),
                unique_values   |-> Len(unique(dropna(column(rows, cols[i])))),
                response_count  |-> notna_sum(column(rows, cols[i]))]]]

RECURSIVE analyze_columns(_, _)
analyze_columns(rows, cols) ==
    IF cols = <<>> THEN <<>>
    ELSE IF Head(cols) = "ResponseId" THEN analyze_columns(rows, Tail(cols))
    ELSE <<[k |-> Head(cols),
            v |-> [type            |-> infer_type(column(rows, Head(cols))),
                   unique_values   |-> Len(unique(dropna(column(rows, Head(cols))))),
                   response_count  |-> notna_sum(column(rows, Head(cols)))]]>>
         \o analyze_columns(rows, Tail(cols))

\* SurveyAnalyzer(data_path) on a file holding the table rows:
\* _load_data, then _analyze_structure
SurveyAnalyzer(rows) ==
    LET qs == analyze_columns(rows, Columns)
    IN  [df             |-> rows,
         questions      |-> qs,
         question_types |-> [c \in {qs[i].k : i \in 1..Len(qs)} |->
                                dict_get(qs, c, <<>>).type]]

\* self.question_types.get(question)
types_get(self, question) ==
    IF question \in DOMAIN self.question_types
    THEN self.question_types[question] ELSE "None"

\* Series.str.contains(option, case=False, na=False) on one cell: a cell
\* that is not text gives NaN, which na=False turns into False
str_contains(cell, option, ignorecase) ==
    is_str(cell) /\ re_search(option, cell.s, ignorecase)

\* Series == option on one cell (the exact match of an SC question): the
\* cell is the text option, whole and case-sensitive
eq_option_ci(cell, option) == is_str(cell) /\ lower(cell.s) = lower(option)
eq_option(cell, option) == cell = Str(option)

\* self.df[mask]: the rows the mask selects
filter_rows_reversed(df, mask) ==
    LET n      == Cardinality(mask)
        nth(p) == CHOOSE j \in mask : Cardinality({l \in mask : l > j}) = p - 1
    IN  [p \in 1..n |-> df[nth(p)]]

\* self.df[mask]: the rows the mask selects, whole and in the order of df
filter_rows(df, mask) == KeepIdx(df, mask, 1)

\* create_subset(question, option)
create_subset(self, question, option) ==
    IF question \notin ColumnSet THEN Raise("ValueError")
    ELSE LET cells == column(self.df, question)
             mask  == IF types_get(self, question) = "MC"
                      THEN {i \in 1..Len(cells) :
                               notna(cells[i]) /\ str_contains(cells[i], option, TRUE)}
                      ELSE {i \in 1..Len(cells) : eq_option(cells[i], option)}
         IN  Ok(filter_rows(self.df, mask))

\* The options one MC answer counts: str(val).split(';'), each stripped
mc_fragments(cell) ==
    LET parts == split(str(cell), ";")
    IN  [i \in 1..Len(parts) |-> strip(parts[i])]

\* The counts of the counting pass of get_distribution: option_counts of an
\* MC question (lines 121-126), value_counts() of any other (line 131)
counted(self, question, rows) ==
    LET cells   == column(rows, question)
        answers == dropna(cells)
    IN  IF types_get(self, question) = "MC"
        THEN count_keys(concat([i \in 1..Len(answers) |->
                                   mc_fragments(answers[i])]), <<>>)
        ELSE value_counts(cells)

\* The dict named distribution in get_distribution before it is sorted
\* (lines 120-133): option -> percentage, in the order in which the counting
\* pass met the options. rows is the table the call works on.
counted_distribution(self, question, rows) ==
    LET total_responses == notna_sum(column(rows, question))
        counts          == counted(self, question, rows)
    IN  IF types_get(self, question) = "MC"
        THEN [i \in 1..Len(counts) |->
                 [k |-> counts[i].k, v |-> pct(counts[i].v, total_responses)]]
        ELSE dict_of([i \in 1..Len(counts) |->
                         [k |-> str(counts[i].k),
                          v |-> pct(counts[i].v, total_responses)]], <<>>)

\* A get_distribution that takes a column that is not there for an empty one
get_distribution_lenient(self, question, subset_df) ==
    LET df == IF subset_df # None THEN subset_df[1] ELSE self.df
    IN  IF question \notin ColumnSet THEN Ok(<<>>)
        ELSE IF notna_sum(column(df, question)) = 0 THEN Ok(<<>>)
        ELSE Ok(sorted_desc(counted_distribution(self, question, df)))

\* get_distribution(question, subset_df): subset_df is None or Some(rows)
get_distribution(self, question, subset_df) ==
    LET df == IF subset_df # None THEN subset_df[1] ELSE self.df
    IN  IF question \notin ColumnSet THEN Raise("ValueError")
        ELSE IF notna_sum(column(df, question)) = 0 THEN Ok(<<>>)
        ELSE IF divides_by_zero(counted(self, question, df),
                                notna_sum(column(df, question)))
        THEN Raise("ZeroDivisionError")
        ELSE Ok(sorted_desc(counted_distribution(self, question, df)))

NoResponses == <<"N", "o", " ", "r", "e", "s", "p", "o", "n", "s", "e", "s">>
Others == <<"O", "t", "h", "e", "r", "s">>

\* Python's truth value of top_n: None and 0 are false
truthy(top_n) == top_n # None /\ top_n[1] # 0

\* len(distribution) > top_n (line 149)
exceeds_or_equals(distribution, top_n) == Len(distribution) >= top_n[1]
exceeds(distribution, top_n) == Len(distribution) > top_n[1]

\* display_distribution(question, subset_df, top_n): the rows of the returned
\* frame, [Option, Percentage], Percentage in hundredths (rounded to 2 places)
display_distribution(self, question, subset_df, top_n) ==
    LET got == get_distribution(self, question, subset_df)
    IN  IF got.raised # "" THEN got
        ELSE
        LET distribution == got.value
            items   == IF truthy(top_n) THEN slice_to(distribution, top_n[1])
                       ELSE distribution
            df_dist == [i \in 1..Len(items) |->
                           [Option |-> items[i].k, Percentage |-> round2(items[i].v)]]
            rest    == slice_from(distribution, top_n[1])
            other_pct == r_sum([i \in 1..Len(rest) |-> rest[i].v])
        IN  IF distribution = <<>>
            THEN Ok(<<[Option |-> NoResponses, Percentage |-> 0]>>)
            ELSE IF truthy(top_n) /\ exceeds(distribution, top_n)
            THEN Ok(Append(df_dist, [Option |-> Others, Percentage |-> round2(other_pct)]))
            ELSE Ok(df_dist)

\* search_questions(keyword): the names of the analysed columns that hold the
\* keyword, case ignored, in the order of self.questions
search_questions(self, keyword) ==
    LET keyword_lower == lower(keyword)
        keys == [i \in 1..Len(self.questions) |-> self.questions[i].k]
    IN  Ok(KeepIdx(keys, {i \in 1..Len(keys) :
                             contains(keyword_lower, lower(name_chars(keys[i])))}, 1))

\* search_options(question, keyword): the sorted list of matching options
search_options(self, question, keyword) ==
    IF question \notin ColumnSet THEN Raise("ValueError")
    ELSE
    LET keyword_lower == lower(keyword)
        answers     == dropna(column(self.df, question))
        all_options == unique(concat([i \in 1..Len(answers) |->
                                         mc_fragments(answers[i])]))
        unique_vals == unique(answers)
        matching_options ==
            IF types_get(self, question) = "MC"
            THEN KeepIdx(all_options,
                         {i \in 1..Len(all_options) :
                             contains(keyword_lower, lower(all_options[i]))}, 1)
            ELSE LET kept == KeepIdx(unique_vals,
                                     {i \in 1..Len(unique_vals) :
                                         contains(keyword_lower,
                                                  lower(str(unique_vals[i])))}, 1)
                 IN  [i \in 1..Len(kept) |-> str(kept[i])]
    IN  Ok(sorted_asc(matching_options))

\* ------------------------------------------------------------------------
\* src/so_lib: the schema-driven design. xlsx is the workbook at
\* DEFAULT_DATA_PATH: None when the file is missing, else
\* Some([schema, raw]) with the sheets 'schema' and 'raw data'. A schema is a
\* sequence of rows [column, question_text, type].
\* ------------------------------------------------------------------------

\* load_data(): the sheets of the workbook, or FileNotFoundError
load_data(xlsx) ==
    IF xlsx = None THEN Raise("FileNotFoundError") ELSE Ok(xlsx[1])

\* schema.loc[schema['column'] == question_id, field].iloc[0]
schema_lookup(schema, question_id) ==
    LET hits == {i \in 1..Len(schema) : schema[i].column = question_id}
    IN  IF hits = {} THEN Raise("IndexError")
        ELSE Ok(schema[CHOOSE i \in hits : \A j \in hits : i <= j])

\* Whether Series.str exists: pandas raises AttributeError on a column that
\* holds no text (a numeric or all-NaN column); a column of no rows is fine
has_str_accessor(cells) ==
    Len(cells) = 0 \/ \E i \in 1..Len(cells) : is_str(cells[i])

\* subset_respondents(question_id, option)
subset_respondents(xlsx, question_id, option) ==
    IF question_id = "" THEN Raise("ValueError")
    ELSE IF option = <<>> THEN Raise("ValueError")
    ELSE IF load_data(xlsx).raised # "" THEN load_data(xlsx)
    ELSE
    LET raw_data == load_data(xlsx).value.raw
        schema   == load_data(xlsx).value.schema
        found    == schema_lookup(schema, question_id)
        cells    == column(raw_data, question_id)
    IN  IF question_id \notin ColumnSet THEN Raise("ValueError")
        ELSE IF found.raised # "" THEN found
        ELSE IF found.value.type = "SC"
        THEN Ok(filter_rows(raw_data, {i \in 1..Len(cells) : eq_option(cells[i], option)}))
        ELSE IF ~has_str_accessor(cells) THEN Raise("AttributeError")
        ELSE Ok(filter_rows(raw_data,
                            {i \in 1..Len(cells) : str_contains(cells[i], option, FALSE)}))

\* A type test that lets every type pass
type_never_mismatch(question_type, required) == FALSE

\* question_type != 'SC' (line 83), question_type != 'MC' (line 135)
type_mismatch(question_type, required) == question_type # required

\* distribution_sc(question_id): the keys of the distribution are the raw
\* cell values
distribution_sc(xlsx, question_id) ==
    IF question_id = "" THEN Raise("ValueError")
    ELSE IF load_data(xlsx).raised # "" THEN load_data(xlsx)
    ELSE
    LET raw_data == load_data(xlsx).value.raw
        schema   == load_data(xlsx).value.schema
        found    == schema_lookup(schema, question_id)
        cells    == column(raw_data, question_id)
        total_responses == notna_sum(cells)
        vc       == value_counts(cells)
    IN  IF question_id \notin ColumnSet THEN Raise("ValueError")
        ELSE IF found.raised # "" THEN found
        ELSE IF type_mismatch(found.value.type, "SC") THEN Raise("ValueError")
        ELSE IF divides_by_zero(vc, total_responses) THEN Raise("ZeroDivisionError")
        ELSE Ok([question_id   |-> question_id,
                 question_text |-> found.value.question_text,
                 distribution  |-> dict_of([i \in 1..Len(vc) |->
                                       [k |-> vc[i].k,
                                        v |-> pct(vc[i].v, total_responses)]], <<>>)])

\* The options distribution_mc counts for one answer: answer.split(';') of a
\* text answer, nothing for an answer that is not text
lib_fragments(cell) == IF is_str(cell) THEN split(cell.s, ";") ELSE <<>>

\* distribution_mc(question_id)
distribution_mc(xlsx, question_id) ==
    IF question_id = "" THEN Raise("ValueError")
    ELSE IF load_data(xlsx).raised # "" THEN load_data(xlsx)
    ELSE
    LET raw_data == load_data(xlsx).value.raw
        schema   == load_data(xlsx).value.schema
        found    == schema_lookup(schema, question_id)
        cells    == column(raw_data, question_id)
        total_respondents == Len(raw_data)
        answers  == dropna(cells)
        options_count == count_keys(concat([i \in 1..Len(answers) |->
                                               lib_fragments(answers[i])]), <<>>)
    IN  IF question_id \notin ColumnSet THEN Raise("ValueError")
        ELSE IF found.raised # "" THEN found
        ELSE IF type_mismatch(found.value.type, "MC") THEN Raise("ValueError")
        ELSE IF divides_by_zero(options_count, total_respondents)
        THEN Raise("ZeroDivisionError")
        ELSE Ok([question_id   |-> question_id,
                 question_text |-> found.value.question_text,
                 distribution  |-> [i \in 1..Len(options_count) |->
                                       [k |-> options_count[i].k,
                                        v |-> pct(options_count[i].v,
                                                  total_respondents)]]])

\* src/so_lib/cli.py format_distribution: the (option, percentage) lines in
\* the order printed, the percentage as printed by {:.2f}
format_distribution(dist_data) ==
    LET sorted_dist == sorted_desc(dist_data.distribution)
    IN  [i \in 1..Len(sorted_dist) |->
            [Option |-> sorted_dist[i].k, Percentage |-> round2(sorted_dist[i].v)]]

\* src/so_lib/core.py list_questions(): the schema sheet with its columns
\* renamed
list_questions(xlsx) ==
    IF load_data(xlsx).raised # "" THEN load_data(xlsx)
    ELSE LET schema == load_data(xlsx).value.schema
         IN  Ok([i \in 1..Len(schema) |->
                    [question_id   |-> schema[i].column,
                     question_text |-> schema[i].question_text,
                     type          |-> schema[i].type]])

\* src/so_lib/core.py search_questions(query): Series.str.contains takes the
\* lower-cased query as a regular expression
lib_search_questions(xlsx, query) ==
    IF query = <<>> THEN Raise("ValueError")
    ELSE IF list_questions(xlsx).raised # "" THEN list_questions(xlsx)
    ELSE LET questions == list_questions(xlsx).value
         IN  Ok(KeepIdx(questions,
                        {i \in 1..Len(questions) :
                            \/ re_search(lower(query),
                                         lower(questions[i].question_text), FALSE)
                            \/ re_search(lower(query),
                                         lower(name_chars(questions[i].question_id)),
                                         FALSE)}, 1))

\* ';' in str(options): some option is a text that holds a ';'
looks_multiple(options) ==
    \E i \in 1..Len(options) : is_str(options[i]) /\ contains(Semicolon, options[i].s)

\* all_options of search_options (lines 130-135): the ';'-joined texts split,
\* the fragments as they are, every other option whole
lib_all_options(options) ==
    concat([i \in 1..Len(options) |->
               IF is_str(options[i]) /\ contains(Semicolon, options[i].s)
               THEN LET parts == split(options[i].s, ";")
                    IN  [j \in 1..Len(parts) |-> Str(parts[j])]
               ELSE <<options[i]>>])

\* The orders of 1..n: the orders in which list(set(...)) can give n elements
RECURSIVE OrdersOf(_)
OrdersOf(S) ==
    IF S = {} THEN {<<>>}
    ELSE UNION { {<<x>> \o rest : rest \in OrdersOf(S \ {x})} : x \in S }

Orders(n) == OrdersOf(1..n)

\* The orders list(set(all_options)) can take in search_options(question_id):
\* any order of the distinct options when the options are split, none to
\* choose otherwise
set_orders(xlsx, question_id) ==
    IF xlsx = None \/ question_id \notin ColumnSet THEN {<<>>}
    ELSE LET options == unique(dropna(column(xlsx[1].raw, question_id)))
         IN  IF looks_multiple(options)
             THEN Orders(Len(unique(lib_all_options(options))))
             ELSE {<<>>}

\* src/so_lib/core.py search_options(question_id, query); query <<>> is no
\* query; set_order is the order list(set(all_options)) takes
lib_search_options(xlsx, question_id, query, set_order) ==
    IF question_id = "" THEN Raise("ValueError")
    ELSE IF load_data(xlsx).raised # "" THEN load_data(xlsx)
    ELSE
    LET raw_data == load_data(xlsx).value.raw
        options  == unique(dropna(column(raw_data, question_id)))
        distinct == unique(lib_all_options(options))
        listed   == IF looks_multiple(options)
                    THEN [p \in 1..Len(distinct) |-> distinct[set_order[p]]]
                    ELSE options
        filtered == IF query # <<>>
                    THEN KeepIdx(listed, {i \in 1..Len(listed) :
                                             contains(lower(query),
                                                      lower(str(listed[i])))}, 1)
                    ELSE listed
    IN  IF question_id \notin ColumnSet THEN Raise("ValueError")
        ELSE Ok([question_id |-> question_id, options |-> filtered])

\* src/so_lib/cli.py format_questions / format_options / the line printed for
\* a subset: what a command prints for the value its operation returned
lib_printed(command, value) ==
    CASE command = "list-questions" -> value
      [] command = "search-questions" -> value
      [] command = "search-options" ->
            [i \in 1..Len(value.options) |-> str(value.options[i])]
      [] command = "subset" -> Len(value)
      [] OTHER -> format_distribution(value)

\* src/so_lib/cli.py main(args) for one command: data_path is None or
\* Some(path) of --data-path, alt_xlsx the workbook at that path, xlsx the
\* workbook at DEFAULT_DATA_PATH. The exit status, the error caught and what
\* was printed.
lib_main(xlsx, alt_xlsx, command, data_path, question_id, arg, set_order) ==
    LET preload == IF data_path # None THEN load_data(alt_xlsx) ELSE Ok(<<>>)
        ran == CASE command = "list-questions" -> list_questions(xlsx)
                 [] command = "search-questions" -> lib_search_questions(xlsx, arg)
                 [] command = "search-options" ->
                       lib_search_options(xlsx, question_id, arg, set_order)
                 [] command = "subset" -> subset_respondents(xlsx, question_id, arg)
                 [] command = "distribution-sc" -> distribution_sc(xlsx, question_id)
                 [] OTHER -> distribution_mc(xlsx, question_id)
    IN  IF preload.raised # ""
        THEN [exit |-> 1, raised |-> preload.raised, printed |-> <<>>]
        ELSE IF ran.raised # ""
        THEN [exit |-> 1, raised |-> ran.raised, printed |-> <<>>]
        ELSE [exit |-> 0, raised |-> "", printed |-> lib_printed(command, ran.value)]

\* ------------------------------------------------------------------------
\* src/src/cli.py
\* ------------------------------------------------------------------------

\* The defaults of --top and --limit
DefaultTop == 10
DefaultLimit == 20

\* A get_analyzer that builds the analyzer from the file at every call
get_analyzer_reloading(analyzer_, data_file_) ==
    IF data_file_ = None THEN None ELSE Some(SurveyAnalyzer(data_file_[1]))

\* get_analyzer(): the value of the global analyzer after the call, which is
\* also the value returned (None when the data file does not exist)
get_analyzer(analyzer_, data_file_) ==
    IF analyzer_ = None
    THEN IF data_file_ = None THEN None
         ELSE Some(SurveyAnalyzer(data_file_[1]))
    ELSE analyzer_

\* display_survey_structure(limit): the rows of the returned frame
display_survey_structure(self, limit) ==
    LET shown == IF limit # 0 /\ limit < Len(self.questions)
                 THEN limit ELSE Len(self.questions)
    IN  [i \in 1..shown |->
            [Question  |-> self.questions[i].k,
             Type      |-> self.questions[i].v.type,
             Unique    |-> self.questions[i].v.unique_values,
             Responses |-> self.questions[i].v.response_count]]

\* What a command leaves behind: the two globals and what it reported
Outcome(analyzer_, subset_, status, shown) ==
    [analyzer |-> analyzer_, current_subset |-> subset_,
     ret |-> [status |-> status, shown |-> shown]]

\* The command found no data file and returned at once
NoData(subset_) == Outcome(None, subset_, "no_data", <<>>)

\* structure --limit; got is what get_analyzer() returned
cli_structure(got, subset_, limit) ==
    IF got = None THEN NoData(subset_)
    ELSE Outcome(got, subset_, "ok", display_survey_structure(got[1], limit))

\* What a command reports for a call made in its try block: a ValueError is
\* caught and echoed, another exception ends the command
cli_report(got, subset_, called) ==
    IF called.raised = "ValueError" THEN Outcome(got, subset_, "error", <<>>)
    ELSE IF called.raised # "" THEN Outcome(got, subset_, called.raised, <<>>)
    ELSE Outcome(got, subset_, "ok", called.value)

\* search keyword [--in-options] [--question q]; question is None or Some(q)
cli_search(got, subset_, keyword, in_options, question) ==
    IF got = None THEN NoData(subset_)
    ELSE IF in_options
    THEN IF question = None THEN Outcome(got, subset_, "usage", <<>>)
         ELSE cli_report(got, subset_, search_options(got[1], question[1], keyword))
    ELSE cli_report(got, subset_, search_questions(got[1], keyword))

\* A subset command that filters the analyzer's table in place
cli_subset_made_in_place(got, subset_, subset_df, save) ==
    IF subset_df.raised # "" THEN cli_report(got, subset_, subset_df)
    ELSE Outcome(Some(SurveyAnalyzer(subset_df.value)),
                 IF save THEN Some(subset_df.value) ELSE subset_,
                 "ok", Len(subset_df.value))

\* The part of subset after create_subset returned or raised: the share of
\* the total is computed, then the subset is saved if --save was given
cli_subset_made(got, subset_, subset_df, save) ==
    IF subset_df.raised # "" THEN cli_report(got, subset_, subset_df)
    ELSE IF Len(got[1].df) = 0
    THEN Outcome(got, subset_, "ZeroDivisionError", <<>>)
    ELSE Outcome(got, IF save THEN Some(subset_df.value) ELSE subset_,
                 "ok", Len(subset_df.value))

\* subset question option [--save]
cli_subset(got, subset_, question, option, save) ==
    IF got = None THEN NoData(subset_)
    ELSE cli_subset_made(got, subset_, create_subset(got[1], question, option), save)

\* A distribution command that falls back to the full dataset when no subset
\* is saved
cli_distribution_falling_back(got, subset_, question, top, subset) ==
    IF got = None THEN NoData(subset_)
    ELSE cli_report(got, subset_,
                    display_distribution(got[1], question,
                                         IF subset THEN subset_ ELSE None,
                                         Some(top)))

\* distribution question [--top n] [--subset]
cli_distribution(got, subset_, question, top, subset) ==
    IF got = None THEN NoData(subset_)
    ELSE IF subset /\ subset_ = None
    THEN Outcome(got, subset_, "no_subset", <<>>)
    ELSE cli_report(got, subset_,
                    display_distribution(got[1], question,
                                         IF subset THEN subset_ ELSE None,
                                         Some(top)))

\* What the REPL reports for a call made inside its try block: every
\* exception is caught and echoed
repl_report(called) ==
    IF called.raised # "" THEN [status |-> "error", shown |-> <<>>]
    ELSE [status |-> "ok", shown |-> called.value]

\* A REPL command that only reports
repl_said(subset_, status) ==
    [current_subset |-> subset_, ret |-> [status |-> status, shown |-> <<>>]]

\* A REPL command that made a call and shows what it returned
repl_called(subset_, called) ==
    [current_subset |-> subset_, ret |-> repl_report(called)]

\* A REPL subset that keeps the subset saved earlier, if there is one
repl_subset_keeping(subset_, made) ==
    IF made.raised # "" THEN repl_called(subset_, made)
    ELSE [current_subset |-> IF subset_ # None THEN subset_ ELSE Some(made.value),
          ret |-> [status |-> "ok", shown |-> Len(made.value)]]

\* A REPL subset that clears the slot when create_subset fails
repl_subset_clearing(subset_, made) ==
    IF made.raised # "" THEN repl_called(None, made)
    ELSE [current_subset |-> Some(made.value),
          ret |-> [status |-> "ok", shown |-> Len(made.value)]]

\* current_subset = analyzer.create_subset(question, option): the assignment
\* happens only when the call returns
repl_subset(subset_, made) ==
    IF made.raised # "" THEN repl_called(subset_, made)
    ELSE [current_subset |-> Some(made.value),
          ret |-> [status |-> "ok", shown |-> Len(made.value)]]

\* One command of the REPL loop, already split into its words: the value of
\* current_subset after it and what it reported. question and option are None
\* when the word is missing.
repl_command(self, subset_, word, question, option, top) ==
    IF word = "structure"
    THEN repl_called(subset_, Ok(display_survey_structure(self, DefaultLimit)))
    ELSE IF word = "search-options"
    THEN IF question = None \/ option = None THEN repl_said(subset_, "usage")
         ELSE repl_called(subset_, search_options(self, question[1], option[1]))
    ELSE IF word = "search"
    THEN IF option = None THEN repl_said(subset_, "usage")
         ELSE repl_called(subset_, search_questions(self, option[1]))
    ELSE IF word = "subset"
    THEN IF question = None \/ option = None THEN repl_said(subset_, "usage")
         ELSE repl_subset(subset_, create_subset(self, question[1], option[1]))
    ELSE IF word \in {"dist-subset", "dist"}
    THEN IF word = "dist-subset" /\ subset_ = None
         THEN repl_said(subset_, "no_subset")
         ELSE IF question = None THEN repl_said(subset_, "usage")
         ELSE repl_called(subset_,
                          display_distribution(self, question[1],
                              IF word = "dist-subset" THEN subset_ ELSE None,
                              Some(top)))
    ELSE IF word = "clear-subset"
    THEN [current_subset |-> None, ret |-> [status |-> "ok", shown |-> <<>>]]
    ELSE repl_said(subset_, "unknown")

\* ------------------------------------------------------------------------
\* Inputs of the model
\* ------------------------------------------------------------------------

txt_A     == <<"A">>
txt_a     == <<"a">>
txt_1     == <<"1">>
txt_Go    == <<"G", "o">>
txt_Gdot  == <<"G", ".">>
txt_Go_C  == <<"G", "o", ";", " ", "C">>
txt_Gox   == <<"G", "o", "x">>
txt_C_C   == <<"C", ";", "C">>
txt_go_   == <<"g", "o", ";">>

\* The answers (Q1, Q2) a respondent's row is drawn from. Q1 holds single
\* values, among them the number 1 and the text "1"; Q2 holds ';'-joined
\* values: with a blank after the separator, without a separator, with one
\* option twice, with a trailing separator and another case, and missing.
RowPool ==
    { [Q1 |-> Str(txt_A),  Q2 |-> Str(txt_Go_C)],
      [Q1 |-> Str(txt_A),  Q2 |-> NaN],
      [Q1 |-> Num(txt_1),  Q2 |-> Str(txt_C_C)],
      [Q1 |-> Str(txt_1),  Q2 |-> Str(txt_Gox)],
      [Q1 |-> NaN,         Q2 |-> Str(txt_go_)] }

Digits == <<"1", "2", "3", "4", "5", "6", "7", "8", "9">>

\* The tables a spreadsheet can hold: up to MaxRows rows, ResponseId the
\* row's number
Tables ==
    UNION { { [i \in 1..n |-> [ResponseId |-> Num(<<Digits[i]>>),
                               Q1 |-> f[i].Q1, Q2 |-> f[i].Q2]]
              : f \in [1..n -> RowPool] }
            : n \in 0..MaxRows }

txt_Q1text == <<"A", "g", "e">>
txt_Q2text == <<"G", "o", " ", "o", "r", " ", "C">>

\* The schema sheets: the declared type agrees or disagrees with the data
Schemas ==
    { << [column |-> "Q1", question_text |-> txt_Q1text, type |-> "SC"],
         [column |-> "Q2", question_text |-> txt_Q2text, type |-> "MC"] >>,
      << [column |-> "Q1", question_text |-> txt_Q1text, type |-> "MC"],
         [column |-> "Q2", question_text |-> txt_Q2text, type |-> "SC"] >> }

\* The rows of the tables of the command-line runs
CliRowPool ==
    { [Q1 |-> Str(txt_A),  Q2 |-> Str(txt_Go_C)],
      [Q1 |-> Str(txt_1),  Q2 |-> Str(txt_Gox)],
      [Q1 |-> NaN,         Q2 |-> Str(txt_go_)] }

\* The tables of the command-line runs: up to MaxCliRows rows
CliTables ==
    {tb \in Tables : /\ Len(tb) <= MaxCliRows
                     /\ \A i \in 1..Len(tb) :
                           [Q1 |-> tb[i].Q1, Q2 |-> tb[i].Q2] \in CliRowPool}

\* The schema sheets of the command-line runs: those above, and one whose
\* type of Q1 is neither SC nor MC
CliSchemas ==
    Schemas \cup
    { << [column |-> "Q1", question_text |-> txt_Q1text, type |-> "TEXT"],
         [column |-> "Q2", question_text |-> txt_Q2text, type |-> "MC"] >> }

\* The workbook at the path given with --data-path, when there is one: no
\* row of it is a row of a table at the default path
AltBook ==
    [schema |-> << [column |-> "Q1", question_text |-> txt_Q1text, type |-> "SC"],
                   [column |-> "Q2", question_text |-> txt_Q2text, type |-> "SC"] >>,
     raw    |-> << [ResponseId |-> Num(<<"9">>), Q1 |-> Str(txt_a),
                    Q2 |-> Str(txt_Gox)] >>]

\* Question ids and option or keyword texts given to the commands of
\* src/src/cli.py
CliQuestions == {"Q1", "Q2", "Q9"}
CliOptions == {txt_A, txt_Go}

\* The first words of the lines typed at the REPL prompt
ReplWords ==
    {"structure", "search-options", "search", "subset", "dist-subset", "dist",
     "clear-subset", "help"}

\* The words after the first of a line typed at the REPL prompt: a question
\* id and an option or keyword, each of them there or missing
ReplArgs(word) ==
    LET questions == {None} \cup {Some(q) : q \in CliQuestions}
        options   == {None} \cup {Some(o) : o \in CliOptions}
    IN  CASE word \in {"search-options", "subset"} -> questions \X options
          [] word \in {"dist-subset", "dist"} -> questions \X {None}
          [] word = "search" -> {None} \X options
          [] OTHER -> {<<None, None>>}

\* The commands of so_lib's main
LibCommands ==
    {"list-questions", "search-questions", "search-options", "subset",
     "distribution-sc", "distribution-mc"}

\* Question ids given to the operations: two columns, and one that is none
QuestionArgs == {"Q1", "Q2", "Q9"}

\* Options given to the subset operations, the empty string among them
OptionArgs == {<<>>, txt_A, txt_a, txt_1, txt_Go, txt_Gdot}

txt_Q  == <<"Q">>
txt_ge == <<"g", "e">>
txt_z  == <<"z">>
txt_c  == <<"c">>

\* Queries given to the question searches: none, one in another case than the
\* ids, one found in a question text only, one with a regular-expression
\* wildcard, one found nowhere
QueryArgs == {<<>>, txt_Q, txt_ge, txt_Gdot, txt_z}

\* Keywords given to the option searches
KeywordArgs == {<<>>, txt_c, txt_1, txt_Go}

\* top_n given to display_distribution
TopArgs == {None, Some(-1), Some(0), Some(1), Some(2)}

\* subset_df given to the distribution operations: None, or a subset that
\* create_subset returned
SubsetArgs(self) ==
    {None} \cup { Some(create_subset(self, q, o).value) :
                    q \in {"Q1", "Q2"}, o \in OptionArgs }

\* ------------------------------------------------------------------------
\* State
\* ------------------------------------------------------------------------

VARIABLES
    analyzer,   \* the SurveyAnalyzer object: None, or Some(object)
    xlsx,       \* the workbook at so_lib's DEFAULT_DATA_PATH: None or Some(sheets)
    result,     \* the call in progress: what was called, with what, and what
                \* it gave back; NoResult between calls
    current_subset, \* src/src/cli.py current_subset: None or Some(rows)
    data_file,  \* the file data/so_2024_raw.xlsx of src/src/cli.py: None when
                \* it is missing, else Some(table)
    alt_xlsx,   \* the workbook at the path given with --data-path: None when
                \* it is missing, else Some(sheets)
    entry       \* how the program is run: "api" (a SurveyAnalyzer object is
                \* called), "so_lib" (so_lib's functions are called), "cli"
                \* (a process of src/src/cli.py, between commands), "repl"
                \* (the same process at the prompt of its REPL), "so_lib_cli"
                \* (so_lib's main)

vars == <<analyzer, xlsx, result, current_subset, data_file, alt_xlsx, entry>>

\* Everything but the call in progress
world == <<analyzer, xlsx, current_subset, data_file, alt_xlsx, entry>>

NoResult == [op |-> "none"]

\* Either the analyzer was constructed on a spreadsheet (the heuristic
\* design), or so_lib's workbook is in place (the schema design), or a
\* process of src/src/cli.py has started and built no analyzer yet, or
\* so_lib's main is about to be run.
Init ==
    /\ result = NoResult
    /\ current_subset = None
    /\ \/ /\ entry = "api"
          /\ \E t \in Tables :
                /\ analyzer = Some(SurveyAnalyzer(t))
                /\ data_file = Some(t)
          /\ xlsx = None
          /\ alt_xlsx = None
       \/ /\ entry = "so_lib"
          /\ analyzer = None
          /\ data_file = None
          /\ \E t \in Tables, s \in Schemas : xlsx = Some([schema |-> s, raw |-> t])
          /\ alt_xlsx = None
       \/ /\ entry = "cli"
          /\ analyzer = None
          /\ data_file \in {None} \cup {Some(tb) : tb \in CliTables}
          /\ xlsx = None
          /\ alt_xlsx = None
       \/ /\ entry = "so_lib_cli"
          /\ analyzer = None
          /\ data_file = None
          /\ \/ xlsx = None
             \/ \E t \in CliTables, s \in CliSchemas :
                   xlsx = Some([schema |-> s, raw |-> t])
          /\ alt_xlsx \in {None, Some(AltBook)}

\* analyzer.get_distribution(question, subset_df)
GetDistribution ==
    /\ result = NoResult
    /\ entry = "api"
    /\ analyzer # None
    /\ \E question \in QuestionArgs, subset_df \in SubsetArgs(analyzer[1]) :
          result' = [op |-> "get_distribution", question |-> question,
                     subset_df |-> subset_df,
                     ret |-> get_distribution(analyzer[1], question, subset_df)]
    /\ UNCHANGED world

\* analyzer.display_distribution(question, subset_df, top_n)
DisplayDistribution ==
    /\ result = NoResult
    /\ entry = "api"
    /\ analyzer # None
    /\ \E question \in QuestionArgs, subset_df \in SubsetArgs(analyzer[1]),
          top_n \in TopArgs :
          result' = [op |-> "display_distribution", question |-> question,
                     subset_df |-> subset_df, top_n |-> top_n,
                     ret |-> display_distribution(analyzer[1], question,
                                                  subset_df, top_n)]
    /\ UNCHANGED world

\* analyzer.create_subset(question, option)
CreateSubset ==
    /\ result = NoResult
    /\ entry = "api"
    /\ analyzer # None
    /\ \E question \in QuestionArgs, option \in OptionArgs :
          result' = [op |-> "create_subset", question |-> question,
                     option |-> option,
                     ret |-> create_subset(analyzer[1], question, option)]
    /\ UNCHANGED world

\* so_lib.subset_respondents(question_id, option)
SubsetRespondents ==
    /\ result = NoResult
    /\ entry = "so_lib"
    /\ analyzer = None
    /\ \E question_id \in QuestionArgs, option \in OptionArgs :
          result' = [op |-> "subset_respondents", question |-> question_id,
                     option |-> option,
                     ret |-> subset_respondents(xlsx, question_id, option)]
    /\ UNCHANGED world

\* so_lib.distribution_sc(question_id), and the lines format_distribution
\* prints for it
DistributionSc ==
    /\ result = NoResult
    /\ entry = "so_lib"
    /\ analyzer = None
    /\ \E question_id \in QuestionArgs :
          LET ret == distribution_sc(xlsx, question_id)
          IN  result' = [op |-> "distribution_sc", question |-> question_id,
                         ret |-> ret,
                         printed |-> IF ret.raised = ""
                                     THEN format_distribution(ret.value) ELSE <<>>]
    /\ UNCHANGED world

\* so_lib.distribution_mc(question_id), and the lines format_distribution
\* prints for it
DistributionMc ==
    /\ result = NoResult
    /\ entry = "so_lib"
    /\ analyzer = None
    /\ \E question_id \in QuestionArgs :
          LET ret == distribution_mc(xlsx, question_id)
          IN  result' = [op |-> "distribution_mc", question |-> question_id,
                         ret |-> ret,
                         printed |-> IF ret.raised = ""
                                     THEN format_distribution(ret.value) ELSE <<>>]
    /\ UNCHANGED world

\* analyzer.search_questions(keyword)
SearchQuestions ==
    /\ result = NoResult
    /\ entry = "api"
    /\ analyzer # None
    /\ \E keyword \in QueryArgs :
          result' = [op |-> "search_questions", query |-> keyword,
                     ret |-> search_questions(analyzer[1], keyword)]
    /\ UNCHANGED world

\* analyzer.search_options(question, keyword)
SearchOptions ==
    /\ result = NoResult
    /\ entry = "api"
    /\ analyzer # None
    /\ \E question \in QuestionArgs, keyword \in KeywordArgs :
          result' = [op |-> "search_options", question |-> question,
                     query |-> keyword,
                     ret |-> search_options(analyzer[1], question, keyword)]
    /\ UNCHANGED world

\* so_lib.search_questions(query)
LibSearchQuestions ==
    /\ result = NoResult
    /\ entry = "so_lib"
    /\ analyzer = None
    /\ \E query \in QueryArgs :
          result' = [op |-> "lib_search_questions", query |-> query,
                     ret |-> lib_search_questions(xlsx, query)]
    /\ UNCHANGED world

\* so_lib.search_options(question_id, query)
LibSearchOptions ==
    /\ result = NoResult
    /\ entry = "so_lib"
    /\ analyzer = None
    /\ \E question_id \in QuestionArgs, query \in KeywordArgs :
          \E set_order \in set_orders(xlsx, question_id) :
              result' = [op |-> "lib_search_options", question |-> question_id,
                         query |-> query,
                         ret |-> lib_search_options(xlsx, question_id, query,
                                                    set_order)]
    /\ UNCHANGED world

\* The query or option given with a command of so_lib's main
lib_arg(command) ==
    CASE command = "search-questions" -> txt_Q
      [] command = "subset" -> txt_A
      [] OTHER -> <<>>

\* python -m so_lib <command> [--data-path P]: one run of so_lib's main
LibMain ==
    /\ result = NoResult
    /\ entry = "so_lib_cli"
    /\ \E command \in LibCommands, data_path \in {None, Some("P")},
          question_id \in {"Q1", "Q2"} :
          \E set_order \in set_orders(xlsx, question_id) :
              result' = [op |-> "main", command |-> command,
                         data_path |-> data_path, question |-> question_id,
                         ret |-> lib_main(xlsx, alt_xlsx, command, data_path,
                                          question_id, lib_arg(command), set_order)]
    /\ UNCHANGED world

\* A command of src/src/cli.py has run: the globals it leaves and its report
Ran_(op, args, outcome) ==
    /\ analyzer' = outcome.analyzer
    /\ current_subset' = outcome.current_subset
    /\ result' = [op |-> op, args |-> args, ret |-> outcome.ret]
    /\ UNCHANGED <<xlsx, data_file, alt_xlsx, entry>>

\* structure [--limit n]
CliStructure ==
    /\ result = NoResult
    /\ entry = "cli"
    /\ \E limit \in {1, DefaultLimit} :
          Ran_("cli_structure", [limit |-> limit],
               cli_structure(get_analyzer(analyzer, data_file), current_subset, limit))

\* search keyword [--in-options] [--question q]
CliSearch ==
    /\ result = NoResult
    /\ entry = "cli"
    /\ \E keyword \in {txt_Q, txt_Go}, in_options \in BOOLEAN,
          question \in {None, Some("Q2")} :
          Ran_("cli_search",
               [keyword |-> keyword, in_options |-> in_options, question |-> question],
               cli_search(get_analyzer(analyzer, data_file), current_subset, keyword,
                          in_options, question))

\* subset question option [--save]
CliSubset ==
    /\ result = NoResult
    /\ entry = "cli"
    /\ \E question \in CliQuestions, option \in CliOptions, save_ \in BOOLEAN :
          Ran_("cli_subset",
               [question |-> question, option |-> option, save |-> save_],
               cli_subset(get_analyzer(analyzer, data_file), current_subset, question,
                          option, save_))

\* distribution question [--subset]
CliDistribution ==
    /\ result = NoResult
    /\ entry = "cli"
    /\ \E question \in CliQuestions, subset \in BOOLEAN :
          Ran_("cli_distribution", [question |-> question, subset |-> subset],
               cli_distribution(get_analyzer(analyzer, data_file), current_subset, question,
                                DefaultTop, subset))

\* repl: get_analyzer(), then the prompt loop is entered unless there is no
\* data
ReplStart ==
    /\ result = NoResult
    /\ entry = "cli"
    /\ analyzer' = get_analyzer(analyzer, data_file)
    /\ entry' = IF analyzer' = None THEN "cli" ELSE "repl"
    /\ result' = [op |-> "cli_repl", args |-> <<>>,
                  ret |-> [status |-> IF analyzer' = None THEN "no_data" ELSE "ok",
                           shown |-> <<>>]]
    /\ UNCHANGED <<xlsx, current_subset, data_file, alt_xlsx>>

\* A command of the REPL has run: the subset it leaves and its report
ReplRan(args, did) ==
    /\ current_subset' = did.current_subset
    /\ result' = [op |-> "repl", args |-> args, ret |-> did.ret]

\* One line typed at the prompt of the REPL, other than exit
ReplCommand ==
    /\ result = NoResult
    /\ entry = "repl"
    /\ \E word \in ReplWords :
          \E args \in ReplArgs(word) :
              ReplRan([word |-> word, question |-> args[1], option |-> args[2]],
                      repl_command(analyzer[1], current_subset, word, args[1],
                                   args[2], DefaultTop))
    /\ UNCHANGED <<analyzer, xlsx, data_file, alt_xlsx, entry>>

\* exit typed at the prompt: the loop ends, the process and its globals stay
ReplExit ==
    /\ result = NoResult
    /\ entry = "repl"
    /\ entry' = "cli"
    /\ result' = [op |-> "repl_exit", args |-> <<>>,
                  ret |-> [status |-> "ok", shown |-> <<>>]]
    /\ UNCHANGED <<analyzer, xlsx, current_subset, data_file, alt_xlsx>>

\* The data file is deleted while the process runs
DataFileRemoved ==
    /\ result = NoResult
    /\ entry \in {"cli", "repl"}
    /\ data_file # None
    /\ data_file' = None
    /\ UNCHANGED <<analyzer, xlsx, result, current_subset, alt_xlsx, entry>>

\* The call returns to its caller, which may call again
Return ==
    /\ result # NoResult
    /\ result' = NoResult
    /\ UNCHANGED world

Next ==
    \/ GetDistribution
    \/ DisplayDistribution
    \/ CreateSubset
    \/ SubsetRespondents
    \/ DistributionSc
    \/ DistributionMc
    \/ SearchQuestions
    \/ SearchOptions
    \/ LibSearchQuestions
    \/ LibSearchOptions
    \/ LibMain
    \/ CliStructure
    \/ CliSearch
    \/ CliSubset
    \/ CliDistribution
    \/ ReplStart
    \/ ReplCommand
    \/ ReplExit
    \/ DataFileRemoved
    \/ Return

Spec == Init /\ [][Next]_vars

\* ------------------------------------------------------------------------
\* Properties
\* ------------------------------------------------------------------------

\* The analyzer object of the state
Self == analyzer[1]

\* The sheets of so_lib's workbook
Sheets == xlsx[1]

\* A call of op has returned a value
Returned(op) == result.op = op /\ result.ret.raised = ""

\* The rows a get_distribution / display_distribution call worked on
ResultRows == IF result.subset_df # None THEN result.subset_df[1] ELSE Self.df

Hundred == [n |-> 100, d |-> 1]

\* The single-choice law on the cells of a column: keys[i] is the option that
\* names cells[i] in the distribution dist
ScLaw(cells, keys, dist) ==
    /\ \A i \in 1..Len(cells) :
          notna(cells[i]) =>
             \E e \in 1..Len(dist) :
                /\ dist[e].k = keys[i]
                /\ r_eq(dist[e].v, [n |-> 100 * count_of(cells, cells[i]),
                                    d |-> notna_sum(cells)])
    /\ notna_sum(cells) > 0 =>
          r_eq(r_sum([e \in 1..Len(dist) |-> dist[e].v]), Hundred)

\* C1: for every row set and every SC question the distribution gives each
\* distinct non-null value the percentage 100 * count / (non-null cells), and
\* the percentages sum to 100 (get_distribution and distribution_sc).
C1_ScPercentagesSumTo100 ==
    /\ (Returned("get_distribution") /\ types_get(Self, result.question) = "SC") =>
          LET cells == column(ResultRows, result.question)
          IN  ScLaw(cells, [i \in 1..Len(cells) |-> str(cells[i])], result.ret.value)
    /\ Returned("distribution_sc") =>
          LET cells == column(Sheets.raw, result.question)
          IN  ScLaw(cells, cells, result.ret.value.distribution)

\* How often option opt is named in the answers cells, an answer's options
\* being the stripped ';'-fragments (trim) or the fragments as they are
Occurrences(cells, opt, trim) ==
    Cardinality({ij \in UNION {{<<i, j>> : j \in 1..Len(split(str(cells[i]), ";"))}
                               : i \in {i \in 1..Len(cells) : is_str(cells[i])}} :
                    LET frag == split(str(cells[ij[1]]), ";")[ij[2]]
                    IN  (IF trim THEN strip(frag) ELSE frag) = opt})

\* The multiple-choice law: every option's percentage is
\* 100 * count / (number of rows), null rows counted in the denominator
McLaw(rows, cells, dist, trim) ==
    \A e \in 1..Len(dist) :
        r_eq(dist[e].v, [n |-> 100 * Occurrences(cells, dist[e].k, trim),
                         d |-> Len(rows)])

\* C2: for every row set and every MC question each option's percentage is
\* 100 * count / (total number of rows of the row set), rows with a null cell
\* included, in get_distribution and in distribution_mc alike.
C2_McDenominatorIsRowCount ==
    /\ (Returned("get_distribution") /\ types_get(Self, result.question) = "MC") =>
          McLaw(ResultRows, column(ResultRows, result.question),
                result.ret.value, TRUE)
    /\ Returned("distribution_mc") =>
          McLaw(Sheets.raw, column(Sheets.raw, result.question),
                result.ret.value.distribution, FALSE)

\* Every percentage of dist lies between 0 and 100
WithinHundred(dist) ==
    \A e \in 1..Len(dist) :
        r_le([n |-> 0, d |-> 1], dist[e].v) /\ r_le(dist[e].v, Hundred)

\* C3: for every MC question and every row set, cells that repeat an option
\* included, every option's percentage is non-negative and at most 100.
C3_McPercentageAtMost100 ==
    /\ (Returned("get_distribution") /\ types_get(Self, result.question) = "MC") =>
          WithinHundred(result.ret.value)
    /\ Returned("distribution_mc") =>
          WithinHundred(result.ret.value.distribution)

\* C4: a distribution computed on a subset that create_subset returned takes
\* its denominator from the subset alone: the subset's non-null cells for an
\* SC question, the subset's rows for an MC question.
C4_SubsetDenominator ==
    (Returned("get_distribution") /\ result.subset_df # None) =>
        LET rows  == result.subset_df[1]
            cells == column(rows, result.question)
            dist  == result.ret.value
        IN  /\ types_get(Self, result.question) = "SC" =>
                  ScLaw(cells, [i \in 1..Len(cells) |-> str(cells[i])], dist)
            /\ types_get(Self, result.question) = "MC" =>
                  McLaw(rows, cells, dist, TRUE)

\* The distribution a display_distribution call of the state was given by
\* get_distribution
ShownDistribution ==
    get_distribution(Self, result.question, result.subset_df).value

\* The rows display_distribution shows for the entries of dist, rounded
Shown(dist) ==
    [i \in 1..Len(dist) |-> [Option |-> dist[i].k, Percentage |-> round2(dist[i].v)]]

\* The truncated-plus-Others frame the truncation law asks for
TruncatedPlusOthers(dist, n) ==
    Append(Shown(SubSeq(dist, 1, n)),
           [Option     |-> Others,
            Percentage |-> round2(r_sum([i \in 1..(Len(dist) - n) |-> dist[n + i].v]))])

\* C5: truncation law: for every provided integer top_n and every distribution
\* of more than top_n entries, display_distribution returns exactly top_n + 1
\* entries: the first top_n entries of the distribution, then one entry
\* "Others" holding the sum of the dropped percentages.
C5_TruncationLaw ==
    (Returned("display_distribution") /\ result.top_n # None) =>
        LET n == result.top_n[1]
        IN  (n >= 0 /\ Len(ShownDistribution) > n) =>
                /\ Len(result.ret.value) = n + 1
                /\ result.ret.value = TruncatedPlusOthers(ShownDistribution, n)

\* C6: when top_n is None, or the distribution has at most top_n entries,
\* display_distribution returns every entry of the distribution, in order
\* (each percentage rounded to two places), and appends no "Others" entry.
C6_NoTruncation ==
    Returned("display_distribution") =>
        ((result.top_n = None \/ Len(ShownDistribution) <= result.top_n[1]) =>
            /\ ShownDistribution # <<>> => result.ret.value = Shown(ShownDistribution)
            /\ \A i \in 1..Len(result.ret.value) :
                  result.ret.value[i].Option = Others =>
                     /\ i <= Len(ShownDistribution)
                     /\ ShownDistribution[i].k = Others)

\* C6 happens: a distribution of exactly top_n >= 2 entries was displayed
C6_Witness ==
    /\ Returned("display_distribution")
    /\ result.top_n # None
    /\ result.top_n[1] >= 2
    /\ Len(ShownDistribution) = result.top_n[1]
    /\ Len(result.ret.value) = result.top_n[1]

\* The place of key in the dict d
PlaceOf(d, key) == CHOOSE i \in 1..Len(d) : d[i].k = key

\* Descending by percentage, entries of equal percentage in the order of pass
DescendingStable(dist, pass) ==
    \A i, j \in 1..Len(dist) :
        i < j =>
           /\ r_le(dist[j].v, dist[i].v)
           /\ r_eq(dist[i].v, dist[j].v) =>
                 PlaceOf(pass, dist[i].k) < PlaceOf(pass, dist[j].k)

\* The options of MC answers in the order in which the rows name them first
FirstMentions(cells) ==
    LET answers == dropna(cells)
        frags   == concat([i \in 1..Len(answers) |-> mc_fragments(answers[i])])
    IN  KeepIdx(frags, {i \in 1..Len(frags) : \A j \in 1..(i - 1) : frags[j] # frags[i]}, 1)

\* C7: the distribution is ordered by descending percentage, and entries of
\* equal percentage keep the order in which the counting pass met their
\* options first (for an MC question: the order in which the rows name them);
\* so for get_distribution and for the lines format_distribution prints.
C7_DescendingStableOrder ==
    /\ (Returned("get_distribution") /\ result.ret.value # <<>>) =>
          /\ DescendingStable(result.ret.value,
                              counted_distribution(Self, result.question, ResultRows))
          /\ types_get(Self, result.question) = "MC" =>
                LET first == FirstMentions(column(ResultRows, result.question))
                IN  DescendingStable(result.ret.value,
                                     [i \in 1..Len(first) |-> [k |-> first[i]]])
    /\ (result.op \in {"distribution_sc", "distribution_mc"} /\ result.ret.raised = "") =>
          LET pass == result.ret.value.distribution
          IN  /\ Len(result.printed) = Len(pass)
              /\ DescendingStable([i \in 1..Len(result.printed) |->
                                      [k |-> result.printed[i].Option,
                                       v |-> dict_get(pass, result.printed[i].Option,
                                                      Hundred)]],
                                  pass)

\* C7 happens: a returned distribution holds two entries of equal percentage
\* and an entry of a smaller one
C7_Witness ==
    /\ Returned("get_distribution")
    /\ \E i, j, l \in 1..Len(result.ret.value) :
          /\ i < j /\ j < l
          /\ r_eq(result.ret.value[i].v, result.ret.value[j].v)
          /\ r_lt(result.ret.value[l].v, result.ret.value[j].v)

\* The type the schema sheet declares for the question of the call
DeclaredType == schema_lookup(Sheets.schema, result.question).value.type

\* C8: a distribution over an empty row set, or over a column with no non-null
\* cell in the row set, is the empty distribution and raises no error, in
\* get_distribution, distribution_sc and distribution_mc.
C8_EmptyGivesEmpty ==
    /\ (/\ result.op = "get_distribution"
        /\ result.question \in ColumnSet
        /\ notna_sum(column(ResultRows, result.question)) = 0)
          => result.ret = Ok(<<>>)
    /\ (/\ result.op = "distribution_sc"
        /\ result.question \in ColumnSet
        /\ DeclaredType = "SC"
        /\ notna_sum(column(Sheets.raw, result.question)) = 0)
          => (result.ret.raised = "" /\ result.ret.value.distribution = <<>>)
    /\ (/\ result.op = "distribution_mc"
        /\ result.question \in ColumnSet
        /\ DeclaredType = "MC"
        /\ notna_sum(column(Sheets.raw, result.question)) = 0)
          => (result.ret.raised = "" /\ result.ret.value.distribution = <<>>)

\* C8 happens: distribution_sc returned the empty distribution for a column
\* of rows that are all null
C8_Witness ==
    /\ Returned("distribution_sc")
    /\ Len(Sheets.raw) > 0
    /\ notna_sum(column(Sheets.raw, result.question)) = 0
    /\ result.ret.value.distribution = <<>>

\* The rows of a table, as a set
RowsOf(rows) == {rows[i] : i \in 1..Len(rows)}

\* The rows of the table whose cell of the question is the text option
ExactMatches(rows, question, option) ==
    {r \in RowsOf(rows) : r[question] = Str(option)}

\* C9: for an SC question create_subset / subset_respondents returns exactly
\* the rows whose cell of the question's column equals the option (whole
\* value, case-sensitive): no other row, and every such row.
C9_ScSubsetExactMatch ==
    /\ (Returned("create_subset") /\ types_get(Self, result.question) = "SC") =>
          RowsOf(result.ret.value) = ExactMatches(Self.df, result.question, result.option)
    /\ (Returned("subset_respondents") /\ DeclaredType = "SC") =>
          RowsOf(result.ret.value) = ExactMatches(Sheets.raw, result.question, result.option)

\* C9 happens: an SC subset kept a row and left out a row that holds another
\* answer
C9_Witness ==
    /\ Returned("create_subset")
    /\ types_get(Self, result.question) = "SC"
    /\ result.ret.value # <<>>
    /\ \E r \in RowsOf(Self.df) :
          /\ r \notin RowsOf(result.ret.value)
          /\ notna(r[result.question])

\* The rows of the table whose cell of the question is a text that contains
\* the option as a substring, case ignored
SubstringMatches(rows, question, option) ==
    {r \in RowsOf(rows) :
        is_str(r[question]) /\ contains(lower(option), lower(r[question].s))}

\* C10: for an MC question a row is in the subset iff its unsplit cell contains
\* the option as a case-insensitive substring, in create_subset and in
\* subset_respondents alike.
C10_McSubsetSubstringIgnoringCase ==
    /\ (result.op = "create_subset" /\ result.question \in ColumnSet
          /\ types_get(Self, result.question) = "MC") =>
          /\ result.ret.raised = ""
          /\ RowsOf(result.ret.value)
                = SubstringMatches(Self.df, result.question, result.option)
    /\ (result.op = "subset_respondents" /\ result.question \in ColumnSet
          /\ DeclaredType = "MC") =>
          /\ result.ret.raised = ""
          /\ RowsOf(result.ret.value)
                = SubstringMatches(Sheets.raw, result.question, result.option)

\* sub is rows with some rows left out: the rows of sub are rows of the table,
\* whole, each taken once and in the table's order
IsSubsequence(sub, rows) ==
    \E f \in [1..Len(sub) -> 1..Len(rows)] :
        /\ \A i, j \in 1..Len(sub) : i < j => f[i] < f[j]
        /\ \A i \in 1..Len(sub) : sub[i] = rows[f[i]]

\* C11: every subset create_subset / subset_respondents returns is a
\* subsequence of the table's rows: the matching rows in their original
\* relative order, each at most once, each with all the columns of the table
\* and the values unchanged.
C11_SubsetIsSubsequence ==
    /\ Returned("create_subset") =>
          /\ IsSubsequence(result.ret.value, Self.df)
          /\ \A i \in 1..Len(result.ret.value) :
                DOMAIN result.ret.value[i] = ColumnSet
    /\ Returned("subset_respondents") =>
          /\ IsSubsequence(result.ret.value, Sheets.raw)
          /\ \A i \in 1..Len(result.ret.value) :
                DOMAIN result.ret.value[i] = ColumnSet

\* C11 happens: a subset of two or more rows that leaves out a row that comes
\* before its last row
C11_Witness ==
    /\ Returned("create_subset")
    /\ Len(result.ret.value) >= 2
    /\ \E i \in 1..Len(Self.df) :
          /\ Self.df[i] \notin RowsOf(result.ret.value)
          /\ \E j \in (i + 1)..Len(Self.df) : Self.df[j] \in RowsOf(result.ret.value)

\* C12: creating a subset with an empty option fails with an invalid-argument
\* error (ValueError) and returns no subset, in create_subset and in
\* subset_respondents, whatever the type of the question.
C12_EmptyOptionRejected ==
    (result.op \in {"create_subset", "subset_respondents"} /\ result.option = <<>>) =>
        /\ result.ret.raised = "ValueError"
        /\ result.ret.value = <<>>

\* The operations that take a question id
QuestionOps ==
    {"search_options", "lib_search_options", "create_subset", "subset_respondents",
     "get_distribution", "display_distribution", "distribution_sc", "distribution_mc"}

\* C13: every operation that takes a question id fails with the
\* unknown-question error (ValueError), returns nothing and changes no state
\* when the id is not a column of the table.
C13_UnknownQuestionRejected ==
    [][(result'.op \in QuestionOps /\ result'.question \notin ColumnSet) =>
          /\ result'.ret = Raise("ValueError")
          /\ analyzer' = analyzer
          /\ xlsx' = xlsx]_vars

\* C13 happens: search_options of so_lib was called for a question that is no
\* column and raised
C13_Witness ==
    /\ result.op = "lib_search_options"
    /\ result.question \notin ColumnSet
    /\ result.ret.raised = "ValueError"
    /\ Len(Sheets.raw) > 0

\* text holds query as a substring, case ignored
HoldsIgnoringCase(query, text) == contains(lower(query), lower(text))

\* The catalog of the analyzer: the analysed columns, in order
AnalyzerCatalog == [i \in 1..Len(Self.questions) |-> Self.questions[i].k]

\* C14: search_questions(query) returns exactly the questions whose id or text
\* holds the query as a case-insensitive substring, in catalog order, and a
\* query that matches nothing gives an empty result, not an error.
C14_SearchQuestionsSubstring ==
    /\ (result.op = "search_questions" /\ result.query # <<>>) =>
          /\ result.ret.raised = ""
          /\ result.ret.value =
                KeepIdx(AnalyzerCatalog,
                        {i \in 1..Len(AnalyzerCatalog) :
                            HoldsIgnoringCase(result.query,
                                              name_chars(AnalyzerCatalog[i]))}, 1)
    /\ (result.op = "lib_search_questions" /\ result.query # <<>>) =>
          /\ result.ret.raised = ""
          /\ result.ret.value =
                KeepIdx(list_questions(xlsx).value,
                        {i \in 1..Len(Sheets.schema) :
                            \/ HoldsIgnoringCase(result.query,
                                                 name_chars(Sheets.schema[i].column))
                            \/ HoldsIgnoringCase(result.query,
                                                 Sheets.schema[i].question_text)}, 1)

\* C15: search_questions called with an empty query fails with an
\* invalid-argument error (ValueError) and returns no questions, in so_lib and
\* in the analyzer.
C15_EmptyQueryRejected ==
    (result.op \in {"search_questions", "lib_search_questions"} /\ result.query = <<>>) =>
        result.ret = Raise("ValueError")

\* The elements of a sequence, as a set
Elements(seq) == {seq[i] : i \in 1..Len(seq)}

\* The option set of a question of the given type over the cells of its
\* column: for MC the trimmed, non-empty ';'-fragments of the non-null cells,
\* otherwise the non-null cell values as strings
OptionSet(cells, type) ==
    IF type = "MC"
    THEN UNION { {strip(f) : f \in Elements(split(str(c), ";"))}
                 : c \in Elements(dropna(cells)) } \ {<<>>}
    ELSE {str(c) : c \in Elements(dropna(cells))}

\* No element of the sequence occurs twice
NoDuplicates(seq) == \A i, j \in 1..Len(seq) : i # j => seq[i] # seq[j]

\* The options a search_options call of so_lib returned, as strings
LibOptions == [i \in 1..Len(result.ret.value.options) |->
                  str(result.ret.value.options[i])]

\* C16: search_options with no (or an empty) query returns exactly the option
\* set of the question: every option of a non-null cell, nothing else, and no
\* option twice.
C16_NoQueryGivesOptionSet ==
    /\ (Returned("search_options") /\ result.query = <<>>) =>
          /\ Elements(result.ret.value)
                = OptionSet(column(Self.df, result.question),
                            types_get(Self, result.question))
          /\ NoDuplicates(result.ret.value)
    /\ (Returned("lib_search_options") /\ result.query = <<>>) =>
          /\ Elements(LibOptions)
                = OptionSet(column(Sheets.raw, result.question),
                            IF schema_lookup(Sheets.schema, result.question).raised = ""
                            THEN DeclaredType ELSE "SC")
          /\ NoDuplicates(LibOptions)

\* The strings are in ascending lexicographic order
Ascending(strs) == \A i, j \in 1..Len(strs) : i < j => ~str_lt(strs[j], strs[i])

\* The options of the option set that hold the query, case ignored
MatchingOptions(cells, type, query) ==
    {o \in OptionSet(cells, type) : HoldsIgnoringCase(query, o)}

\* C17: search_options with a non-empty query returns exactly the options of
\* the question that hold the query as a case-insensitive substring, each
\* once, in ascending lexicographic order.
C17_QueryFiltersSortedOptions ==
    /\ (Returned("search_options") /\ result.query # <<>>) =>
          /\ Elements(result.ret.value)
                = MatchingOptions(column(Self.df, result.question),
                                  types_get(Self, result.question), result.query)
          /\ NoDuplicates(result.ret.value)
          /\ Ascending(result.ret.value)
    /\ (Returned("lib_search_options") /\ result.query # <<>>) =>
          /\ Elements(LibOptions)
                = MatchingOptions(column(Sheets.raw, result.question),
                                  IF schema_lookup(Sheets.schema, result.question).raised = ""
                                  THEN DeclaredType ELSE "SC",
                                  result.query)
          /\ NoDuplicates(LibOptions)
          /\ Ascending(LibOptions)

\* Every option is a non-empty text without blanks around it
CleanOptions(options) ==
    \A i \in 1..Len(options) : options[i] # <<>> /\ strip(options[i]) = options[i]

\* The keys of a dict, in order
Keys(d) == [i \in 1..Len(d) |-> d[i].k]

\* C18: for an MC question the options of the option search and of the
\* distribution are the ';'-fragments of the non-null cells, trimmed, the empty
\* fragments dropped: no option is empty or has blanks around it, and the
\* options counted are exactly the option set.
C18_McOptionsTrimmedNonEmpty ==
    /\ (Returned("search_options") /\ types_get(Self, result.question) = "MC") =>
          CleanOptions(result.ret.value)
    /\ (Returned("get_distribution") /\ types_get(Self, result.question) = "MC") =>
          /\ CleanOptions(Keys(result.ret.value))
          /\ Elements(Keys(result.ret.value))
                = OptionSet(column(ResultRows, result.question), "MC")
    /\ (Returned("lib_search_options")
          /\ schema_lookup(Sheets.schema, result.question).raised = ""
          /\ DeclaredType = "MC") =>
          CleanOptions(LibOptions)
    /\ Returned("distribution_mc") =>
          /\ CleanOptions(Keys(result.ret.value.distribution))
          /\ Elements(Keys(result.ret.value.distribution))
                = OptionSet(column(Sheets.raw, result.question), "MC")

\* C19: for an SC question (declared by the schema, or inferred by the
\* analyzer) the options are the distinct non-null cell values, whole: a cell
\* that holds a ';' is one option and is not split.
C19_ScOptionsAreWholeValues ==
    /\ (Returned("search_options") /\ result.query = <<>>
          /\ types_get(Self, result.question) = "SC") =>
          Elements(result.ret.value)
              = {str(c) : c \in Elements(dropna(column(Self.df, result.question)))}
    /\ (Returned("lib_search_options") /\ result.query = <<>>
          /\ schema_lookup(Sheets.schema, result.question).raised = ""
          /\ DeclaredType = "SC") =>
          Elements(result.ret.value.options)
              = Elements(dropna(column(Sheets.raw, result.question)))

\* The columns the analyzer analyses: all but ResponseId
AnalysedColumns == ColumnSet \ {"ResponseId"}

\* The row of the first non-null cell of the cells
FirstAnswered(cells) ==
    CHOOSE i \in 1..Len(cells) :
        notna(cells[i]) /\ \A j \in 1..(i - 1) : ~notna(cells[j])

\* C20: type inference gives every analysed column exactly one type: empty iff
\* the column has no non-null cell (response_count = 0); otherwise MC iff its
\* first non-null value, as a string, holds ';'; otherwise SC, whatever the
\* later values are.
C20_TypeInference ==
    analyzer # None =>
        /\ DOMAIN Self.question_types = AnalysedColumns
        /\ \A q \in AnalysedColumns :
              LET cells == column(Self.df, q)
                  info  == dict_get(Self.questions, q, <<>>)
              IN  /\ info.type = Self.question_types[q]
                  /\ info.type \in {"empty", "MC", "SC"}
                  /\ info.type = "empty" <=> info.response_count = 0
                  /\ info.response_count = notna_sum(cells)
                  /\ info.response_count > 0 =>
                        (info.type = "MC"
                            <=> contains(Semicolon, str(cells[FirstAnswered(cells)])))

\* C20 happens: a column whose first answer holds no ';' and a later one does
\* was analysed as SC
C20_Witness ==
    /\ analyzer # None
    /\ Self.question_types["Q2"] = "SC"
    /\ \E i \in 1..Len(Self.df) :
          is_str(Self.df[i].Q2) /\ contains(Semicolon, Self.df[i].Q2.s)

\* C21: without a schema the catalog holds exactly one question per column of
\* the table other than ResponseId, in the order of the columns, with
\* response_count the number of non-null cells and unique_values the number of
\* distinct non-null cell values; ResponseId is never a key.
C21_CatalogFromColumns ==
    analyzer # None =>
        /\ Keys(Self.questions)
              = SelectSeq(Columns, LAMBDA c : c # "ResponseId")
        /\ \A i \in 1..Len(Self.questions) :
              LET cells == column(Self.df, Self.questions[i].k)
              IN  /\ Self.questions[i].k \in ColumnSet
                  /\ Self.questions[i].v.response_count
                        = Cardinality({r \in 1..Len(cells) : cells[r] # NaN})
                  /\ Self.questions[i].v.unique_values
                        = Cardinality(Elements(cells) \ {NaN})

\* C21 happens: the catalog of a table of three rows with a column that holds
\* a null and one value twice
C21_Witness ==
    /\ analyzer # None
    /\ Len(Self.df) = 3
    /\ \E i \in 1..Len(Self.questions) :
          /\ Self.questions[i].v.response_count = 2
          /\ Self.questions[i].v.unique_values = 1

\* The command of so_lib's main that has run
Ran(command) == result.op = "main" /\ result.command = command

\* The schema row of the question has a type that is neither SC nor MC
UndeclaredKind(question) ==
    /\ xlsx # None
    /\ schema_lookup(Sheets.schema, question).raised = ""
    /\ schema_lookup(Sheets.schema, question).value.type \notin {"SC", "MC"}

\* C22: in the schema-driven catalog a schema row whose type is neither SC nor
\* MC is rejected with an error: listing the questions and taking a subset or
\* a distribution of such a question end in an error, never in a result that
\* treats the question as SC or MC.
C22_UnknownTypeRejected ==
    /\ (Ran("list-questions") /\ result.ret.raised = "" /\ xlsx # None) =>
          \A i \in 1..Len(Sheets.schema) : Sheets.schema[i].type \in {"SC", "MC"}
    /\ (/\ result.op = "main"
        /\ result.command \in {"subset", "distribution-sc", "distribution-mc"}
        /\ UndeclaredKind(result.question))
          => result.ret.exit = 1

\* The declared type of the question of a so_lib call is not the given one
DeclaredOther(kind) ==
    /\ xlsx # None
    /\ schema_lookup(Sheets.schema, result.question).raised = ""
    /\ schema_lookup(Sheets.schema, result.question).value.type # kind

\* C23: distribution_sc of a question whose declared type is not SC, and
\* distribution_mc of a question whose declared type is not MC, raise an error
\* and return no distribution; the command line prints none and exits with 1.
C23_WrongKindFails ==
    /\ (result.op = "distribution_sc" /\ DeclaredOther("SC")) =>
          /\ result.ret.raised = "ValueError"
          /\ result.ret.value = <<>>
          /\ result.printed = <<>>
    /\ (result.op = "distribution_mc" /\ DeclaredOther("MC")) =>
          /\ result.ret.raised = "ValueError"
          /\ result.ret.value = <<>>
          /\ result.printed = <<>>
    /\ (Ran("distribution-sc") /\ DeclaredOther("SC")) =>
          result.ret = [exit |-> 1, raised |-> result.ret.raised, printed |-> <<>>]
    /\ (Ran("distribution-mc") /\ DeclaredOther("MC")) =>
          result.ret = [exit |-> 1, raised |-> result.ret.raised, printed |-> <<>>]

\* distribution_sc was called for an MC question with answers, distribution_mc
\* for an SC question with answers, and both failed
C23_Witness ==
    /\ result.op \in {"distribution_sc", "distribution_mc"}
    /\ DeclaredOther(IF result.op = "distribution_sc" THEN "SC" ELSE "MC")
    /\ result.question \in ColumnSet
    /\ notna_sum(column(Sheets.raw, result.question)) > 0
    /\ result.ret.raised = "ValueError"

\* C25: a command of so_lib's main given --data-path P reads and reports on
\* the workbook at P: its outcome is the outcome of the same command run with
\* the workbook at P in the place of the default workbook.
C25_DataPathIsRead ==
    (result.op = "main" /\ result.data_path # None) =>
        \E set_order \in set_orders(alt_xlsx, result.question) :
            result.ret = lib_main(alt_xlsx, alt_xlsx, result.command, None,
                                  result.question, lib_arg(result.command),
                                  set_order)

\* A command of src/src/cli.py, or a line of its REPL, runs in this step
CliOps == {"cli_structure", "cli_search", "cli_subset", "cli_distribution", "cli_repl"}
Runs(ops) == result = NoResult /\ result'.op \in ops

\* This step is a REPL line with the given first word
ReplRuns(word) == Runs({"repl"}) /\ result'.args.word = word

\* This step is a subset command that saves and succeeds: the REPL's subset,
\* or subset --save
SavingStep ==
    \/ ReplRuns("subset") /\ result'.ret.status = "ok"
    \/ Runs({"cli_subset"}) /\ result'.args.save /\ result'.ret.status = "ok"

\* The question of a REPL line or of a subset command, and its option
StepQuestion ==
    IF result'.op = "repl" THEN result'.args.question[1] ELSE result'.args.question
StepOption ==
    IF result'.op = "repl" THEN result'.args.option[1] ELSE result'.args.option

\* C24: the remembered subset is one value: after a successful saving subset
\* command (REPL subset, CLI subset --save) it is exactly that command's
\* subset, whatever was remembered before; after clear-subset it is empty; and
\* no other step puts a subset into it.
C24_SlotHoldsLastSave ==
    [][ /\ SavingStep =>
              current_subset' =
                  Some(create_subset(analyzer'[1], StepQuestion, StepOption).value)
        /\ ReplRuns("clear-subset") => current_subset' = None
        /\ (current_subset' # None /\ ~SavingStep) => current_subset' = current_subset
      ]_vars

\* A REPL subset succeeded while the table has two rows and remembered one
C24_Witness ==
    /\ result.op = "repl"
    /\ result.args.word = "subset"
    /\ result.ret.status = "ok"
    /\ Len(Self.df) = 2
    /\ current_subset # None
    /\ Len(current_subset[1]) = 1

C27_SameCallSameResult ==
    /\ result.op = "lib_search_options" =>
          \A set_order \in set_orders(xlsx, result.question) :
              result.ret = lib_search_options(xlsx, result.question,
                                              result.query, set_order)
    /\ result.op = "search_options" =>
          result.ret = search_options(Self, result.question, result.query)
    /\ result.op = "get_distribution" =>
          result.ret = get_distribution(Self, result.question, result.subset_df)

\* A distribution over the remembered subset was asked for
SubsetDist ==
    \/ result.op = "repl" /\ result.args.word = "dist-subset"
    \/ result.op = "cli_distribution" /\ result.args.subset

\* The question of a distribution command, None when the REPL line has none
DistQuestion ==
    IF result.op = "repl" THEN result.args.question ELSE Some(result.args.question)

\* C28 as stated: whenever the slot is empty the command reports that no
\* subset is saved.
C28_EmptySlotReportsNoSubset ==
    (SubsetDist /\ current_subset = None) =>
        result.ret = [status |-> "no_subset", shown |-> <<>>]

\* C28: a distribution over the remembered subset is computed only while the
\* slot is non-empty, and then over the subset; while it is empty a command
\* that has its analyzer reports that no subset is saved, one that found no
\* data file reports that, and neither shows a distribution.
C28_SubsetDistNeedsSubset ==
    /\ (SubsetDist /\ current_subset = None /\ analyzer # None) =>
          result.ret = [status |-> "no_subset", shown |-> <<>>]
    /\ (SubsetDist /\ current_subset = None /\ analyzer = None) =>
          result.ret = [status |-> "no_data", shown |-> <<>>]
    /\ (SubsetDist /\ current_subset # None /\ DistQuestion # None) =>
          LET over == display_distribution(Self, DistQuestion[1], current_subset,
                                           Some(DefaultTop))
          IN  IF over.raised # "" THEN result.ret.shown = <<>>
              ELSE result.ret = [status |-> "ok", shown |-> over.value]

\* The slot is empty, the table has answers to Q1, and a distribution of Q1
\* over the remembered subset was refused
C28_Witness ==
    /\ SubsetDist
    /\ current_subset = None
    /\ analyzer # None
    /\ notna_sum(column(Self.df, "Q1")) > 0
    /\ DistQuestion = Some("Q1")
    /\ result.ret.status = "no_subset"

\* C29: the remembered subset changes only in a successful REPL subset, a
\* successful subset --save or a clear-subset: every other step leaves it as
\* it was, and after a REPL line, failed or not, the REPL is still at its
\* prompt with its analyzer.
C29_SlotChangesOnlyOnSave ==
    [][ /\ current_subset' # current_subset =>
              (SavingStep \/ ReplRuns("clear-subset"))
        /\ Runs({"repl"}) => (entry' = "repl" /\ analyzer' # None)
      ]_vars

\* A REPL subset of a question that is no column failed while a subset was
\* remembered, and the REPL goes on
C29_Witness ==
    /\ result.op = "repl"
    /\ result.args.word = "subset"
    /\ result.args.question = Some("Q9")
    /\ result.ret.status = "error"
    /\ current_subset # None
    /\ entry = "repl"

\* C30: the analyzer is built at most once: once there is one, every step
\* leaves it the same, whatever became of the data file; it is built only by
\* a command, from the file as it then is; and a command that finds neither
\* an analyzer nor the file leaves the analyzer unset and the remembered
\* subset alone and reports only the missing file.
C30_AnalyzerBuiltOnce ==
    [][ /\ analyzer # None => analyzer' = analyzer
        /\ (analyzer = None /\ analyzer' # None) =>
              /\ Runs(CliOps)
              /\ data_file # None
              /\ analyzer' = Some(SurveyAnalyzer(data_file[1]))
        /\ (Runs(CliOps) /\ analyzer = None /\ data_file = None) =>
              /\ analyzer' = None
              /\ current_subset' = current_subset
              /\ entry' = entry
              /\ result'.ret = [status |-> "no_data", shown |-> <<>>]
      ]_vars

\* The data file is gone and a distribution was still shown by the analyzer
\* built before
C30_Witness ==
    /\ result.op = "cli_distribution"
    /\ result.ret.status = "ok"
    /\ analyzer # None
    /\ data_file = None

====
